---- MODULE Spec2Model ----
(***************************************************************************)
(* CAN telemetry relay: the sender (CAN_web/CanClient.py, CANDataSender)   *)
(* and the hub (CAN_web/CanServer.py, FastAPI app + ConnectionManager).    *)
(*                                                                         *)
(* Both programs are single-threaded asyncio programs: a coroutine runs    *)
(* atomically from one `await` that really suspends to the next one.  Each *)
(* action below is one such atomic stretch of a handler or loop.  A        *)
(* network await (POST, GET /health, websocket accept, websocket           *)
(* send_json) is a suspension: the action that starts it records the call, *)
(* and a second action is its completion, where the outcome (delivered,    *)
(* raised, status code) becomes visible.                                   *)
(***************************************************************************)
EXTENDS Integers, Sequences, FiniteSets, TLC

(* ------------------------------ bounds -------------------------------- *)
NSubs == 2          \* websocket connections that may ever be opened
NReqs == 2          \* POST /api/can-data calls that may ever arrive
MaxTime == 6        \* sender clock stops advancing here (unit: SendInterval)
MaxSnap == 3        \* Snapshots the sender may assemble

Subs == 1..NSubs
Reqs == 1..NReqs

(* ----------------------------- JSON values ---------------------------- *)
\* A JSON object / Python dict is a function from its keys to values.
SRT == "server_received_time"
EmptyDict == [k \in {} |-> 0]

\* The keys of the data_package the sender assembles.
SnapshotFields ==
    {"timestamp", "gps", "velocity", "accumulator", "inverters", "vcu",
     "imu", "canlogging"}

data_package_dict(v) == [k \in SnapshotFields |-> v]

\* Python truthiness of a dict: `if latest_can_data`, `if not latest_can_data`.
Truthy(d) == DOMAIN d # {}

\* The bodies a client may POST: JSON objects (a full Snapshot, a Snapshot
\* that already carries a server_received_time key, an empty object) and a
\* JSON value that is not an object.  Field values are abstracted to one
\* value: what matters below is which keys a dict has and who set them.
ObjectBodies ==
    { EmptyDict,
      data_package_dict(1),
      [k \in SnapshotFields \cup {SRT} |-> 1] }

RequestBodies ==
    { [json |-> "object", fields |-> d] : d \in ObjectBodies }
      \cup { [json |-> "array", fields |-> EmptyDict] }

\* datetime.now() values the hub may read (different from the field values
\* a body carries).
HubTimes == {9}

NoBody == [json |-> "none", fields |-> EmptyDict]
NoMsg == [type |-> "none", data |-> EmptyDict, req |-> 0]

(* ------------------------------ variables ----------------------------- *)
VARIABLES
    \* ---- hub (CanServer.py)
    latest_can_data,     \* global latest_can_data
    active_connections,  \* manager.active_connections (a list)
    wsPc,                \* position of websocket_endpoint for each connection
    alive,               \* the connection's transport is open (pushes work)
    chan,                \* messages delivered to each connection, in order
    greetMsg,            \* the initial_data message being pushed
    connAfter,           \* history: the receive() that was the last one and
                         \*   complete when the connection arrived (0: none)
    nConn,               \* connections opened so far
    rqPc,                \* position of receive_can_data for each POST
    body,                \* the POSTed body
    msg,                 \* the message broadcast_data was called with
    idx,                 \* list iterator of the `for` loop: items consumed
    cur,                 \* the connection whose send_json is awaited
    disconnected,        \* broadcast_data's local list `disconnected`
    startReg,            \* history: registry and liveness when receive began
    response,            \* HTTP status answered to the POST (0: none yet)
    nReq,                \* POSTs arrived so far
    latestReq,           \* history: the receive() that wrote latest_can_data
    pullResult,          \* last answer of GET /api/latest-data
    healthResult,        \* last answer of GET /health
    wedged,              \* connections whose viewer has stopped reading: a
                         \*   push to one of them does not complete
    \* ---- sender (CanClient.py)
    runPc,               \* position of run(): start, running, aborted
    is_connected,        \* self.is_connected
    last_send_time,      \* self.last_send_time
    now,                 \* time.time(), in units of send_interval
    loopPc,              \* position of process_can_messages
    current_time,        \* its local current_time
    data_package,        \* its local data_package (0: not bound yet)
    nextSnap,            \* number the next assembled Snapshot gets
    pending,             \* Snapshots assembled whose send attempt has not ended
    posts,               \* history: the Snapshot of every POST attempt, in order
    send_result,         \* what send_data_to_server returned last
    post_outcome,        \* history: how the last POST ended
    last_probe,          \* history: the last probe that ended: the branch of
                         \*   the monitor that made it and how it ended
    bus_failed,          \* history: init_can_bus returned False
    wait_flip,           \* history: "flipped" once a failed send has set
                         \*   is_connected False during the monitor's sleep(30),
                         \*   "probed" once that sleep has ended and its probe
                         \*   is under way, "answered" once that probe has ended
    monPc                \* position of connection_monitor

hubVars ==
    << latest_can_data, active_connections, wsPc, alive, chan, greetMsg,
       connAfter, nConn, rqPc, body, msg, idx, cur, disconnected, startReg,
       response, nReq, latestReq, pullResult, healthResult, wedged >>

senderVars ==
    << runPc, is_connected, last_send_time, now, loopPc, current_time,
       data_package, nextSnap, pending, posts, send_result, post_outcome,
       last_probe, bus_failed, wait_flip, monPc >>

vars == << hubVars, senderVars >>

(* --------------------------- hub: operators --------------------------- *)
Range(q) == { q[i] : i \in DOMAIN q }

\* A hub that keeps only its own key of the POSTed dict.
StampReplacing(d, t) == [k \in {SRT} |-> t]

\* A hub that stores the POSTed dict as it came.
StampNothing(d, t) == d

\* receive_can_data, lines 110-111: the POSTed dict becomes latest_can_data
\* and gets (or has overwritten) the key server_received_time.
Stamp(d, t) == [k \in DOMAIN d \cup {SRT} |-> IF k = SRT THEN t ELSE d[k]]

\* A handler whose parameter is not typed: every body reaches it.
AcceptsAnyBody(b) == TRUE

\* The FastAPI parameter `data: Dict[str, Any]`: the handler runs only for a
\* body that is a JSON object; which keys it has is not looked at.
AcceptsBody(b) == b.json = "object"

\* list.remove(x) raises ValueError when x is not in the list.
RemoveRaises(q, x) == x \notin Range(q)

\* list.remove(x): removes the first occurrence (when it raises, the list
\* is as it was).
ListRemove(q, x) ==
    IF RemoveRaises(q, x) THEN q
    ELSE LET i == CHOOSE j \in DOMAIN q :
                      q[j] = x /\ \A k \in 1..(j - 1) : q[k] # x
         IN  SubSeq(q, 1, i - 1) \o SubSeq(q, i + 1, Len(q))

\* A disconnect without the membership test.
RemoveCalledAlways(conns, ws) == TRUE

\* ConnectionManager.disconnect, line 71: remove() is called only for a
\* connection that is in the list.
RemoveCalled(conns, ws) == ws \in Range(conns)

\* ConnectionManager.disconnect: the list it leaves.
disconnect(conns, ws) ==
    IF RemoveCalled(conns, ws) THEN ListRemove(conns, ws) ELSE conns

\* ConnectionManager.disconnect: does the call raise?
disconnect_raises(conns, ws) ==
    RemoveCalled(conns, ws) /\ RemoveRaises(conns, ws)

\* A broadcast that puts every connection on its `disconnected` list.
MarkDisconnectedAlways(dead, ws, ok) == Append(dead, ws)

\* broadcast_data, lines 82-86: a connection whose push raised is appended
\* to `disconnected`.
MarkDisconnected(dead, ws, ok) == IF ok THEN dead ELSE Append(dead, ws)

\* health_check (its timestamp key is left out)
health_check(conns) ==
    [status |-> "healthy", connected_clients |-> Len(conns)]

\* broadcast_data, lines 89-90
RECURSIVE DisconnectAll(_, _)
DisconnectAll(conns, dead) ==
    IF dead = << >> THEN conns
    ELSE DisconnectAll(disconnect(conns, Head(dead)), Tail(dead))

\* A pull query without the emptiness test.
get_latest_data_unchecked(d) == [status |-> "success", data |-> d]

\* get_latest_data (the answer's own timestamp key is left out)
get_latest_data(d) ==
    IF ~Truthy(d)
    THEN [status |-> "no_data", data |-> EmptyDict]
    ELSE [status |-> "success", data |-> d]

\* websocket_endpoint, line 145: is an initial_data message sent?
SendsGreeting(d) == Truthy(d)

(* -------------------------- sender: operators ------------------------- *)
\* self.send_interval = 0.1 s: the unit of the sender's clock.
SendInterval == 1

\* What a POST or a GET can end in: status 200, another status, an exception
\* (refused connection, timeout).
Outcomes == {"ok200", "non200", "raise"}

\* process_can_messages, line 110
IntervalElapsed(t, last) == t - last > SendInterval

\* A sender that catches up: one package per interval since the last cycle.
CycleSnapshotsCatchUp(n, t, last) ==
    n .. (n + ((t - last) \div SendInterval) - 1)

\* process_can_messages, lines 113-122: one cycle builds one data_package,
\* however long ago the last cycle was.
CycleSnapshots(n, t, last) == {n}

\* A sender that tries a failed package again.
PackageToSendRetry(fresh, old, lastResult) ==
    IF lastResult = "False" /\ old # 0 THEN old ELSE fresh

\* process_can_messages, lines 113-125: the package handed to
\* send_data_to_server is the one just built.
PackageToSend(fresh, old, lastResult) == fresh

\* send_data_to_server, lines 86-94: the value returned.
SendReturns(outcome) == IF outcome = "ok200" THEN "True" ELSE "False"

\* send_data_to_server, lines 86-94: is_connected when it returns.
ConnectedAfterSend(conn, outcome) ==
    IF outcome = "raise" THEN FALSE ELSE conn

\* A probe that takes any HTTP answer for a live hub.
ConnectedAfterProbeAnyAnswer(conn, outcome) == outcome # "raise"

\* A probe that can confirm Connected but not establish it.
ConnectedAfterProbeOnlyConfirms(conn, outcome) == conn /\ outcome = "ok200"

\* test_server_connection, lines 63-72: is_connected when it returns.
ConnectedAfterProbe(conn, outcome) ==
    CASE outcome = "ok200"  -> TRUE
      [] outcome = "raise"  -> FALSE
      [] outcome = "non200" -> conn

\* A run() that goes on without a bus.
StartsLoopsAlways(busOk) == TRUE

\* run, lines 158-160: the loops are started only when init_can_bus
\* returned True.
StartsLoops(busOk) == busOk

\* A send loop that does not look at the flag.
MaySendAlways(conn) == TRUE

\* process_can_messages, line 111, and send_data_to_server, lines 76-77: a
\* package is assembled and POSTed only while is_connected.
MaySend(conn) == conn

(* ------------------------------- Init --------------------------------- *)
HubInit ==
    /\ latest_can_data = EmptyDict
    /\ active_connections = << >>
    /\ wsPc = [s \in Subs |-> "idle"]
    /\ alive = [s \in Subs |-> TRUE]
    /\ chan = [s \in Subs |-> << >>]
    /\ greetMsg = [s \in Subs |-> NoMsg]
    /\ connAfter = [s \in Subs |-> 0]
    /\ nConn = 0
    /\ rqPc = [r \in Reqs |-> "idle"]
    /\ body = [r \in Reqs |-> NoBody]
    /\ msg = [r \in Reqs |-> NoMsg]
    /\ idx = [r \in Reqs |-> 0]
    /\ cur = [r \in Reqs |-> 0]
    /\ disconnected = [r \in Reqs |-> << >>]
    /\ startReg = [r \in Reqs |-> [reg |-> {}, live |-> {}]]
    /\ response = [r \in Reqs |-> 0]
    /\ nReq = 0
    /\ latestReq = 0
    /\ pullResult = [status |-> "none", data |-> EmptyDict]
    /\ healthResult = [status |-> "none", connected_clients |-> 0]
    /\ wedged = {}

\* CANDataSender.__init__; time.time() is far beyond last_send_time = 0.
SenderInit ==
    /\ runPc = "start"
    /\ is_connected = FALSE
    /\ last_send_time = 0
    /\ now = SendInterval + 1
    /\ loopPc = "top"
    /\ current_time = 0
    /\ data_package = 0
    /\ nextSnap = 1
    /\ pending = {}
    /\ posts = << >>
    /\ send_result = "none"
    /\ post_outcome = "none"
    /\ last_probe = [at |-> "none", outcome |-> "none"]
    /\ bus_failed = FALSE
    /\ wait_flip = "no"
    /\ monPc = "start"

Init == HubInit /\ SenderInit

(* ------------------- hub: websocket_endpoint (/ws) -------------------- *)
\* A push to a connection whose viewer has stopped reading and has not
\* closed stays suspended: send_json is awaited without a timeout.
PushBlocked(ws) == ws \in wedged /\ alive[ws]

\* A viewer opens /ws: the handler starts and awaits websocket.accept().
\* Connections are numbered in the order they arrive.
WsConnect(s) ==
    /\ wsPc[s] = "idle"
    /\ s = nConn + 1
    /\ nConn' = s
    /\ wsPc' = [wsPc EXCEPT ![s] = "accepting"]
    /\ connAfter' = [connAfter EXCEPT ![s] =
                        IF latestReq # 0 /\ rqPc[latestReq] = "done"
                        THEN latestReq ELSE 0]
    /\ UNCHANGED senderVars
    /\ UNCHANGED << latest_can_data, active_connections, alive, chan,
                    greetMsg, rqPc, body, msg, idx, cur, disconnected,
                    startReg, response, nReq, latestReq, pullResult,
                    healthResult, wedged >>

\* accept() returns: the connection is appended to the registry; then, if
\* there is data, the initial_data message is built and its push awaited.
WsAccepted(s) ==
    /\ wsPc[s] = "accepting"
    /\ active_connections' = Append(active_connections, s)
    /\ IF SendsGreeting(latest_can_data)
       THEN /\ greetMsg' = [greetMsg EXCEPT ![s] =
                   [type |-> "initial_data", data |-> latest_can_data,
                    req |-> latestReq]]
            /\ wsPc' = [wsPc EXCEPT ![s] = "greeting"]
       ELSE /\ wsPc' = [wsPc EXCEPT ![s] = "open"]
            /\ UNCHANGED greetMsg
    /\ UNCHANGED senderVars
    /\ UNCHANGED << latest_can_data, alive, chan, connAfter, nConn, rqPc,
                    body, msg, idx, cur, disconnected, startReg, response,
                    nReq, latestReq, pullResult,
                    healthResult, wedged >>

\* accept() raises (the peer went away during the handshake): connect() is
\* outside the try block, the handler ends and nothing was registered.
WsAcceptFail(s) ==
    /\ wsPc[s] = "accepting"
    /\ alive' = [alive EXCEPT ![s] = FALSE]
    /\ wsPc' = [wsPc EXCEPT ![s] = "closed"]
    /\ UNCHANGED senderVars
    /\ UNCHANGED << latest_can_data, active_connections, chan, greetMsg,
                    connAfter, nConn, rqPc, body, msg, idx, cur,
                    disconnected, startReg, response, nReq, latestReq,
                    pullResult,
                    healthResult, wedged >>

\* The push of initial_data completes: delivered, or it raises and the
\* except branch calls manager.disconnect.
WsGreeted(s) ==
    /\ wsPc[s] = "greeting"
    /\ ~PushBlocked(s)
    /\ IF alive[s]
       THEN /\ chan' = [chan EXCEPT ![s] = Append(@, greetMsg[s])]
            /\ wsPc' = [wsPc EXCEPT ![s] = "open"]
            /\ UNCHANGED active_connections
       ELSE /\ active_connections' = disconnect(active_connections, s)
            /\ wsPc' = [wsPc EXCEPT ![s] = "closed"]
            /\ UNCHANGED chan
    /\ UNCHANGED senderVars
    /\ UNCHANGED << latest_can_data, alive, greetMsg, connAfter, nConn,
                    rqPc, body, msg, idx, cur, disconnected, startReg,
                    response, nReq, latestReq, pullResult,
                    healthResult, wedged >>

\* The viewer closes its end (environment): pushes to it fail from now on.
WsClose(s) ==
    /\ wsPc[s] \in {"greeting", "open"}
    /\ alive[s]
    /\ alive' = [alive EXCEPT ![s] = FALSE]
    /\ UNCHANGED senderVars
    /\ UNCHANGED << latest_can_data, active_connections, wsPc, chan,
                    greetMsg, connAfter, nConn, rqPc, body, msg, idx, cur,
                    disconnected, startReg, response, nReq, latestReq,
                    pullResult,
                    healthResult, wedged >>

\* receive_text() raises WebSocketDisconnect: manager.disconnect(websocket).
\* (A text message from the viewer is only logged and changes nothing.)
WsDisconnect(s) ==
    /\ wsPc[s] = "open"
    /\ ~alive[s]
    /\ active_connections' = disconnect(active_connections, s)
    /\ wsPc' = [wsPc EXCEPT ![s] = "closed"]
    /\ UNCHANGED senderVars
    /\ UNCHANGED << latest_can_data, alive, chan, greetMsg, connAfter,
                    nConn, rqPc, body, msg, idx, cur, disconnected,
                    startReg, response, nReq, latestReq, pullResult,
                    healthResult, wedged >>

(* ---------------- hub: receive_can_data (POST /api/can-data) ---------- *)
\* A body that is not a JSON object never reaches the handler: the
\* framework answers 422.  POSTs are numbered in the order they arrive.
ReceiveReject(r, b) ==
    /\ rqPc[r] = "idle"
    /\ r = nReq + 1
    /\ ~AcceptsBody(b)
    /\ nReq' = r
    /\ body' = [body EXCEPT ![r] = b]
    /\ rqPc' = [rqPc EXCEPT ![r] = "rejected"]
    /\ response' = [response EXCEPT ![r] = 422]
    /\ UNCHANGED senderVars
    /\ UNCHANGED << latest_can_data, active_connections, wsPc, alive, chan,
                    greetMsg, connAfter, nConn, msg, idx, cur, disconnected,
                    startReg, latestReq, pullResult,
                    healthResult, wedged >>

\* The handler runs up to the first awaited send_json of broadcast_data
\* (or to its return, when the registry is empty).
ReceiveStart(r, b, t) ==
    /\ rqPc[r] = "idle"
    /\ r = nReq + 1
    /\ AcceptsBody(b)
    /\ nReq' = r
    /\ body' = [body EXCEPT ![r] = b]
    /\ latest_can_data' = Stamp(b.fields, t)
    /\ latestReq' = r
    /\ msg' = [msg EXCEPT ![r] =
                  [type |-> "can_data_update", data |-> latest_can_data',
                   req |-> r]]
    /\ startReg' = [startReg EXCEPT ![r] =
                      [reg |-> Range(active_connections),
                       live |-> {s \in Subs : alive[s]}]]
    /\ IF active_connections = << >>
       THEN /\ rqPc' = [rqPc EXCEPT ![r] = "done"]
            /\ response' = [response EXCEPT ![r] = 200]
            /\ UNCHANGED << idx, cur >>
       ELSE /\ rqPc' = [rqPc EXCEPT ![r] = "pushing"]
            /\ idx' = [idx EXCEPT ![r] = 1]
            /\ cur' = [cur EXCEPT ![r] = active_connections[1]]
            /\ UNCHANGED response
    /\ UNCHANGED senderVars
    /\ UNCHANGED << active_connections, wsPc, alive, chan, greetMsg,
                    connAfter, nConn, disconnected, pullResult,
                    healthResult, wedged >>

\* The awaited send_json completes (delivered or raised); the `for` loop
\* takes the next item of the live list, or ends: the failed connections are
\* removed and the handler answers 200.  Every exception of a push is caught
\* at line 84, so the handler's own except branch (lines 122-124, answer 500)
\* is never entered.
PushDone(r) ==
    /\ rqPc[r] = "pushing"
    /\ ~PushBlocked(cur[r])
    /\ LET s    == cur[r]
           ok   == alive[s]
           dead == MarkDisconnected(disconnected[r], s, ok)
       IN  /\ chan' = IF ok THEN [chan EXCEPT ![s] = Append(@, msg[r])]
                            ELSE chan
           /\ disconnected' = [disconnected EXCEPT ![r] = dead]
           /\ IF idx[r] < Len(active_connections)
              THEN /\ idx' = [idx EXCEPT ![r] = @ + 1]
                   /\ cur' = [cur EXCEPT ![r] = active_connections[idx[r] + 1]]
                   /\ UNCHANGED << active_connections, rqPc, response >>
              ELSE /\ active_connections' =
                          DisconnectAll(active_connections, dead)
                   /\ rqPc' = [rqPc EXCEPT ![r] = "done"]
                   /\ response' = [response EXCEPT ![r] = 200]
                   /\ UNCHANGED << idx, cur >>
    /\ UNCHANGED senderVars
    /\ UNCHANGED << latest_can_data, wsPc, alive, greetMsg, connAfter,
                    nConn, body, msg, startReg, nReq, latestReq,
                    pullResult,
                    healthResult, wedged >>

(* ------------------ hub: GET /api/latest-data ------------------------- *)
PullQuery ==
    /\ pullResult' = get_latest_data(latest_can_data)
    /\ UNCHANGED senderVars
    /\ UNCHANGED << latest_can_data, active_connections, wsPc, alive, chan,
                    greetMsg, connAfter, nConn, rqPc, body, msg, idx, cur,
                    disconnected, startReg, response, nReq, latestReq,
                    healthResult, wedged >>

HubNext ==
    \/ \E s \in Subs : WsConnect(s)
    \/ \E s \in Subs : WsAccepted(s)
    \/ \E s \in Subs : WsAcceptFail(s)
    \/ \E s \in Subs : WsGreeted(s)
    \/ \E s \in Subs : WsClose(s)
    \/ \E s \in Subs : WsDisconnect(s)
    \/ \E r \in Reqs, b \in RequestBodies : ReceiveReject(r, b)
    \/ \E r \in Reqs, b \in RequestBodies, t \in HubTimes : ReceiveStart(r, b, t)
    \/ \E r \in Reqs : PushDone(r)
    \/ PullQuery

SpecHub == Init /\ [][HubNext]_vars

(* ------------------------ hub: GET /health ---------------------------- *)
HealthQuery ==
    /\ healthResult' = health_check(active_connections)
    /\ UNCHANGED senderVars
    /\ UNCHANGED << latest_can_data, active_connections, wsPc, alive, chan,
                    greetMsg, connAfter, nConn, rqPc, body, msg, idx, cur,
                    disconnected, startReg, response, nReq, latestReq,
                    pullResult, wedged >>

\* The hub with its status query.  (The query changes nothing the other
\* handlers read, so SpecHub leaves it out.)
HubHealthNext ==
    \/ HubNext
    \/ HealthQuery

SpecHubHealth == Init /\ [][HubHealthNext]_vars

(* ------------------- hub: a viewer that stops reading ----------------- *)
\* The viewer of an open connection stops reading (environment).
WsWedge(s) ==
    /\ wsPc[s] \in {"greeting", "open"}
    /\ alive[s]
    /\ s \notin wedged
    /\ wedged' = wedged \cup {s}
    /\ UNCHANGED senderVars
    /\ UNCHANGED << latest_can_data, active_connections, wsPc, alive, chan,
                    greetMsg, connAfter, nConn, rqPc, body, msg, idx, cur,
                    disconnected, startReg, response, nReq, latestReq,
                    pullResult, healthResult >>

\* The hub with viewers that may stop reading; the queries and the rejected
\* POSTs, which play no part in a broadcast, are left out.
HubWedgeNext ==
    \/ \E s \in Subs : WsConnect(s)
    \/ \E s \in Subs : WsAccepted(s)
    \/ \E s \in Subs : WsAcceptFail(s)
    \/ \E s \in Subs : WsGreeted(s)
    \/ \E s \in Subs : WsClose(s)
    \/ \E s \in Subs : WsDisconnect(s)
    \/ \E s \in Subs : WsWedge(s)
    \/ \E r \in Reqs, b \in RequestBodies, t \in HubTimes : ReceiveStart(r, b, t)
    \/ \E r \in Reqs : PushDone(r)

\* The event loop resumes every handler whose awaited call has completed:
\* a handler that can take its next step eventually takes it.
SpecHubWedge ==
    /\ Init
    /\ [][HubWedgeNext]_vars
    /\ \A r \in Reqs : WF_vars(PushDone(r))
    /\ \A s \in Subs : WF_vars(WsAccepted(s) \/ WsAcceptFail(s))
    /\ \A s \in Subs : WF_vars(WsGreeted(s))
    /\ \A s \in Subs : WF_vars(WsDisconnect(s))

(* --------------------------- sender: run() ---------------------------- *)
\* init_can_bus succeeds or not; on success the HTTP session is made and
\* gather() starts the send loop and the monitor, whose first step (the
\* flag is still False) is a probe.
RunStart(busOk) ==
    /\ runPc = "start"
    /\ bus_failed' = ~busOk
    /\ IF StartsLoops(busOk)
       THEN /\ runPc' = "running"
            /\ monPc' = "probing"
       ELSE /\ runPc' = "aborted"
            /\ UNCHANGED monPc
    /\ UNCHANGED hubVars
    /\ UNCHANGED << is_connected, last_send_time, now, loopPc, current_time,
                    data_package, nextSnap, pending, posts, send_result,
                    post_outcome, last_probe, wait_flip >>

\* The wall clock advances.
Tick ==
    /\ runPc = "running"
    /\ now < MaxTime
    /\ now' = now + 1
    /\ UNCHANGED hubVars
    /\ UNCHANGED << runPc, is_connected, last_send_time, loopPc,
                    current_time, data_package, nextSnap, pending, posts,
                    send_result, post_outcome, last_probe, bus_failed, wait_flip, monPc >>

(* -------------------- sender: process_can_messages -------------------- *)
\* An iteration before the interval has elapsed: nothing but the sleep.
\* (Reading and decoding bus frames, lines 103-106, fills the decoder's
\* store, whose content is not modelled; an exception there is logged and
\* the loop goes on, lines 132-134.)
LoopIdle ==
    /\ runPc = "running" /\ loopPc = "top"
    /\ ~IntervalElapsed(now, last_send_time)
    /\ loopPc' = "sleeping"
    /\ current_time' = now
    /\ UNCHANGED hubVars
    /\ UNCHANGED << runPc, is_connected, last_send_time, now, data_package,
                    nextSnap, pending, posts, send_result, post_outcome, last_probe, bus_failed, wait_flip, monPc >>

\* The interval has elapsed and the sender is Disconnected: the cycle ends
\* without a POST.
LoopSkip ==
    /\ runPc = "running" /\ loopPc = "top"
    /\ IntervalElapsed(now, last_send_time)
    /\ ~MaySend(is_connected)
    /\ current_time' = now
    /\ last_send_time' = now
    /\ loopPc' = "sleeping"
    /\ UNCHANGED hubVars
    /\ UNCHANGED << runPc, is_connected, now, data_package, nextSnap,
                    pending, posts, send_result, post_outcome, last_probe, bus_failed, wait_flip, monPc >>

\* The interval has elapsed and the sender is Connected: a data_package is
\* assembled and send_data_to_server awaits its POST.
LoopSend ==
    /\ runPc = "running" /\ loopPc = "top"
    /\ IntervalElapsed(now, last_send_time)
    /\ MaySend(is_connected)
    /\ nextSnap <= MaxSnap
    /\ LET built == CycleSnapshots(nextSnap, now, last_send_time)
           pkg   == PackageToSend(nextSnap, data_package, send_result)
       IN  /\ data_package' = pkg
           /\ pending' = pending \cup built
           /\ nextSnap' = nextSnap + Cardinality(built)
           /\ posts' = Append(posts, pkg)
    /\ current_time' = now
    /\ loopPc' = "posting"
    /\ UNCHANGED hubVars
    /\ UNCHANGED << runPc, is_connected, last_send_time, now, send_result, post_outcome, last_probe, bus_failed, wait_flip,
                    monPc >>

\* The POST ends; send_data_to_server returns, the package is not used
\* again and the cycle ends.
PostReturn(outcome) ==
    /\ loopPc = "posting"
    /\ send_result' = SendReturns(outcome)
    /\ post_outcome' = outcome
    /\ is_connected' = ConnectedAfterSend(is_connected, outcome)
    /\ wait_flip' = IF monPc = "sleep30" /\ is_connected /\ ~is_connected'
                    THEN "flipped" ELSE wait_flip
    /\ pending' = pending \ {data_package}
    /\ last_send_time' = current_time
    /\ loopPc' = "sleeping"
    /\ UNCHANGED hubVars
    /\ UNCHANGED << runPc, now, current_time, data_package, nextSnap, posts,
                    last_probe, bus_failed, monPc >>

\* asyncio.sleep(0.001) ends.
LoopWake ==
    /\ loopPc = "sleeping"
    /\ loopPc' = "top"
    /\ UNCHANGED hubVars
    /\ UNCHANGED << runPc, is_connected, last_send_time, now, current_time,
                    data_package, nextSnap, pending, posts, send_result, post_outcome, last_probe, bus_failed, wait_flip,
                    monPc >>

(* --------------------- sender: connection_monitor --------------------- *)
\* Where the monitor suspends next, at the top of its `while True`.
MonitorNext(conn) == IF conn THEN "sleep30" ELSE "probing"

\* The probe made while Disconnected ends.
MonProbeDone(outcome) ==
    /\ monPc = "probing"
    /\ last_probe' = [at |-> "disconnected", outcome |-> outcome]
    /\ is_connected' = ConnectedAfterProbe(is_connected, outcome)
    /\ monPc' = IF is_connected' THEN MonitorNext(TRUE) ELSE "sleep5"
    /\ UNCHANGED hubVars
    /\ UNCHANGED << runPc, last_send_time, now, loopPc, current_time,
                    data_package, nextSnap, pending, posts, send_result,
                    post_outcome, bus_failed, wait_flip >>

\* asyncio.sleep(5) ends.
MonWake5 ==
    /\ monPc = "sleep5"
    /\ monPc' = MonitorNext(is_connected)
    /\ UNCHANGED hubVars
    /\ UNCHANGED << runPc, is_connected, last_send_time, now, loopPc,
                    current_time, data_package, nextSnap, pending, posts,
                    send_result, post_outcome, last_probe, bus_failed, wait_flip >>

\* asyncio.sleep(30) ends: the periodic re-probe is issued.
MonWake30 ==
    /\ monPc = "sleep30"
    /\ monPc' = "reprobing"
    /\ wait_flip' = IF wait_flip = "flipped" THEN "probed" ELSE "no"
    /\ UNCHANGED hubVars
    /\ UNCHANGED << runPc, is_connected, last_send_time, now, loopPc,
                    current_time, data_package, nextSnap, pending, posts,
                    send_result, post_outcome, last_probe, bus_failed >>

\* The periodic re-probe ends.
MonReprobeDone(outcome) ==
    /\ monPc = "reprobing"
    /\ last_probe' = [at |-> "connected", outcome |-> outcome]
    /\ is_connected' = ConnectedAfterProbe(is_connected, outcome)
    /\ monPc' = MonitorNext(is_connected')
    /\ wait_flip' = IF wait_flip = "probed" THEN "answered" ELSE "no"
    /\ UNCHANGED hubVars
    /\ UNCHANGED << runPc, last_send_time, now, loopPc, current_time,
                    data_package, nextSnap, pending, posts, send_result,
                    post_outcome, bus_failed >>

SenderNext ==
    \/ \E busOk \in BOOLEAN : RunStart(busOk)
    \/ Tick
    \/ LoopIdle
    \/ LoopSkip
    \/ LoopSend
    \/ \E o \in Outcomes : PostReturn(o)
    \/ LoopWake
    \/ \E o \in Outcomes : MonProbeDone(o)
    \/ MonWake5
    \/ MonWake30
    \/ \E o \in Outcomes : MonReprobeDone(o)

SpecSender == Init /\ [][SenderNext]_vars

\* The sender under the event loop's scheduling: a coroutine whose sleep has
\* run out is resumed, and a GET or POST ends (with an answer, or with the
\* session's 5 s timeout raising).
SpecSenderFair ==
    /\ Init
    /\ [][SenderNext]_vars
    /\ WF_vars(\E o \in Outcomes : MonProbeDone(o))
    /\ WF_vars(MonWake5)
    /\ WF_vars(MonWake30)
    /\ WF_vars(\E o \in Outcomes : MonReprobeDone(o))
    /\ WF_vars(\E o \in Outcomes : PostReturn(o))

(* ====================================================================== *)
(*                               Properties                               *)
(* ====================================================================== *)

\* send_data_to_server returns: the step that ends the awaited POST.
SendReturnsNow == loopPc = "posting" /\ loopPc' = "sleeping"

\* Connection s was delivered the can_data_update of receive() r.
Delivered(s, r) ==
    \E i \in DOMAIN chan[s] :
        chan[s][i].type = "can_data_update" /\ chan[s][i].req = r

\* Dict d is dict S with the key server_received_time added (or overwritten)
\* and every other key of S unchanged.
SameButStamp(d, S) ==
    /\ DOMAIN d = DOMAIN S \cup {SRT}
    /\ \A k \in DOMAIN S \ {SRT} : d[k] = S[k]

\* A body has the Snapshot shape: a JSON object with the Snapshot's keys.
MatchesSnapshotShape(b) ==
    b.json = "object" /\ SnapshotFields \subseteq DOMAIN b.fields

\* A POST arrives at the hub in this step.
Arrives(r) == rqPc[r] = "idle" /\ rqPc'[r] # "idle"

(* ------------------------------- C1 ----------------------------------- *)
\* C1: while the sender is Connected, whenever send_data_to_server returns
\* failure (the POST raised, or the hub answered a status other than 200),
\* is_connected is False at the return.
C1_FailedSendDisconnects ==
    [][ (SendReturnsNow /\ is_connected /\ send_result' = "False")
            => ~is_connected' ]_vars

(* ------------------------------- C2 ----------------------------------- *)
\* C2: when a receive() has returned, it answered success (200); every
\* connection that was registered when it began and whose pushes work was
\* delivered its update; and every connection that was registered when it
\* began with its transport already closed is no longer registered.
C2_IsolatedDelivery ==
    \A r \in Reqs :
        rqPc[r] = "done" =>
            /\ response[r] = 200
            /\ \A s \in startReg[r].reg : alive[s] => Delivered(s, r)
            /\ \A s \in startReg[r].reg \ startReg[r].live :
                   s \notin Range(active_connections)

(* ------------------------------- C3 ----------------------------------- *)
\* C3: for a connection that arrived after a completed receive(), the first
\* message on its channel is the initial_data message: no can_data_update
\* reaches it before.
C3_GreetingFirst ==
    \A s \in Subs :
        (connAfter[s] # 0 /\ chan[s] # << >>)
            => chan[s][1].type = "initial_data"

(* ------------------------------- C4 ----------------------------------- *)
\* C4: on every connection the can_data_update messages arrive in the order
\* in which their receive() calls began (POSTs are numbered in that order).
C4_PerSubscriberFifo ==
    \A s \in Subs :
        \A i, j \in DOMAIN chan[s] :
            ( /\ i < j
              /\ chan[s][i].type = "can_data_update"
              /\ chan[s][j].type = "can_data_update" )
                => chan[s][i].req < chan[s][j].req

(* ------------------------------- C5 ----------------------------------- *)
\* C5, as claimed: after a completed receive(S) that no other receive()
\* followed, the pull query answers success with data exactly S, and a
\* connection that arrived then is greeted with data exactly S.
C5_ExactlyS ==
    \A r \in Reqs :
        (latestReq = r /\ rqPc[r] = "done") =>
            /\ get_latest_data(latest_can_data).status = "success"
            /\ get_latest_data(latest_can_data).data = body[r].fields
            /\ \A s \in Subs : \A i \in DOMAIN chan[s] :
                   (connAfter[s] = r /\ chan[s][i].type = "initial_data")
                       => chan[s][i].data = body[r].fields

\* C5, amended: after a completed receive(S) that no other receive()
\* followed, the pull query answers success with data equal to S plus the
\* key server_received_time set by the hub (overwriting such a key of S),
\* every other key and value of S unchanged; a connection that arrived then
\* is greeted with an initial_data message carrying the same data.
C5_SnapshotPlusServerTime ==
    \A r \in Reqs :
        (latestReq = r /\ rqPc[r] = "done") =>
            /\ get_latest_data(latest_can_data).status = "success"
            /\ SameButStamp(get_latest_data(latest_can_data).data,
                            body[r].fields)
            /\ \A s \in Subs :
                   connAfter[s] = r =>
                       /\ \A i \in DOMAIN chan[s] :
                              chan[s][i].type = "initial_data" =>
                                  /\ SameButStamp(chan[s][i].data,
                                                  body[r].fields)
                                  /\ chan[s][i].data = latest_can_data
                       /\ wsPc[s] = "open" =>
                              \E i \in DOMAIN chan[s] :
                                  chan[s][i].type = "initial_data"

\* A full Snapshot was received, nothing followed, a pull query answered it
\* and a connection that arrived afterwards has been greeted.
C5_Witness ==
    \E r \in Reqs, s \in Subs :
        /\ latestReq = r /\ rqPc[r] = "done"
        /\ body[r].fields = data_package_dict(1)
        /\ pullResult.status = "success"
        /\ pullResult.data = latest_can_data
        /\ connAfter[s] = r /\ wsPc[s] = "open"
        /\ Len(chan[s]) = 1

(* ------------------------------- C6 ----------------------------------- *)
\* C6: as long as no receive() has been accepted, the pull query answers
\* no_data (every answer given so far, and the one it would give now), and
\* no connection has been sent, or is being sent, an initial_data message.
C6_NoDataBeforeFirstReceive ==
    (\A r \in Reqs : rqPc[r] \in {"idle", "rejected"}) =>
        /\ get_latest_data(latest_can_data).status = "no_data"
        /\ pullResult.status \in {"none", "no_data"}
        /\ \A s \in Subs :
               /\ wsPc[s] # "greeting"
               /\ \A i \in DOMAIN chan[s] : chan[s][i].type # "initial_data"

\* Before any receive(): a pull query was answered and a connection went
\* through the greeting step and is open.
C6_Witness ==
    /\ \A r \in Reqs : rqPc[r] \in {"idle", "rejected"}
    /\ pullResult.status = "no_data"
    /\ \E s \in Subs : wsPc[s] = "open" /\ chan[s] = << >>

(* ------------------------------- C7 ----------------------------------- *)
\* C7, as claimed: a POST whose body does not have the Snapshot shape (a
\* non-object, or an object lacking Snapshot keys) is answered with an error,
\* leaves latest_can_data unchanged and starts no broadcast.
C7_ShapeChecked ==
    [][ \A r \in Reqs :
            (Arrives(r) /\ ~MatchesSnapshotShape(body'[r])) =>
                /\ rqPc'[r] = "rejected"
                /\ response'[r] >= 400
                /\ latest_can_data' = latest_can_data
                /\ chan' = chan ]_vars

\* C7, amended: a POST whose body is not a JSON object is answered with an
\* error (422), leaves latest_can_data unchanged and starts no broadcast;
\* a JSON object is accepted whatever keys it has, also one lacking the
\* Snapshot's keys: it becomes latest_can_data and is broadcast.
C7_OnlyNonObjectsRejected ==
    [][ \A r \in Reqs :
            Arrives(r) =>
                IF body'[r].json # "object"
                THEN /\ rqPc'[r] = "rejected"
                     /\ response'[r] = 422
                     /\ latest_can_data' = latest_can_data
                     /\ msg' = msg
                     /\ chan' = chan
                ELSE /\ rqPc'[r] \in {"pushing", "done"}
                     /\ SameButStamp(latest_can_data', body'[r].fields)
                     /\ msg'[r].data = latest_can_data' ]_vars

\* The second POST was not a JSON object and was rejected, with data from
\* the first POST in place and a connection registered.
C7_Witness ==
    /\ NReqs >= 2
    /\ rqPc[2] = "rejected" /\ response[2] = 422
    /\ body[2].json = "array"
    /\ latestReq = 1
    /\ active_connections # << >>

(* ------------------------------- C8 ----------------------------------- *)
\* C8: no Snapshot is the subject of two POST attempts.
C8_AtMostOnePost ==
    \A i, j \in DOMAIN posts : i # j => posts[i] # posts[j]

\* A POST raised (the sender went Disconnected), the sender reconnected and
\* a later Snapshot is being POSTed.
C8_Witness ==
    /\ post_outcome = "raise"
    /\ loopPc = "posting"
    /\ Len(posts) >= 2

(* ------------------------------- C9 ----------------------------------- *)
\* C9: at most one Snapshot is assembled and not yet discarded; between
\* send cycles there is none; while a POST is in flight the only one is the
\* package in flight and no other has been assembled since.
C9_QueueDepthAtMostOne ==
    /\ Cardinality(pending) <= 1
    /\ loopPc # "posting" => pending = {}
    /\ loopPc = "posting" =>
           /\ pending = {data_package}
           /\ nextSnap = data_package + 1

\* A POST has been in flight for two pacing intervals, and it is not the
\* first cycle.
C9_Witness ==
    /\ loopPc = "posting"
    /\ now - current_time >= 2 * SendInterval
    /\ Len(posts) >= 2
    /\ Cardinality(pending) = 1

(* ------------------------------- C10 ---------------------------------- *)
\* C10: whenever send_data_to_server returns success, is_connected is True
\* at the return.
C10_SuccessMeansConnected ==
    [][ (SendReturnsNow /\ send_result' = "True") => is_connected' ]_vars

\* The probe made while Disconnected (connection_monitor, line 141) ends.
RetryProbeEnds == monPc = "probing" /\ monPc' # "probing"

\* The periodic re-probe (connection_monitor, line 151) ends.
ReprobeEnds == monPc = "reprobing" /\ monPc' # "reprobing"

\* An iteration of the send loop runs, from its top to its next await.
LoopIterates == loopPc = "top" /\ loopPc' # "top"

(* ------------------------------- C11 ---------------------------------- *)
\* C11: a probe made from Disconnected that is answered 200 ends with
\* is_connected True; one that raises or is answered another status ends with
\* is_connected False and the monitor in its 5 s wait; when that wait ends
\* the sender is still Disconnected and the monitor probes again.
C11_ProbeFromDisconnected ==
    [][ /\ monPc = "probing" => ~is_connected
        /\ RetryProbeEnds =>
               IF last_probe'.outcome = "ok200"
               THEN is_connected' /\ monPc' = "sleep30"
               ELSE ~is_connected' /\ monPc' = "sleep5"
        /\ (monPc = "sleep5" /\ monPc' # "sleep5") =>
               ~is_connected' /\ monPc' = "probing" ]_vars

\* A probe made from Disconnected was answered with a status other than 200,
\* the retry wait is over and the next probe is in flight.
C11_Witness ==
    /\ monPc = "probing"
    /\ last_probe = [at |-> "disconnected", outcome |-> "non200"]
    /\ ~is_connected

(* ------------------------------- C14 ---------------------------------- *)
\* C14: if init_can_bus failed, run() has returned: the send loop and the
\* monitor were never started, no probe was made and no Snapshot POSTed.
C14_AbortOnBusFailure ==
    bus_failed =>
        /\ runPc = "aborted"
        /\ monPc = "start" /\ loopPc = "top"
        /\ last_probe.at = "none"
        /\ posts = << >>
        /\ nextSnap = 1
        /\ ~is_connected

\* init_can_bus failed and run() returned.
C14_Witness == bus_failed /\ runPc = "aborted"

(* ------------------------------- C17 ---------------------------------- *)
\* C17: while Connected, a periodic re-probe that raises or is answered a
\* status other than 200 ends with is_connected False, and the monitor goes
\* on (it probes again).
C17_FailedReprobeDisconnects ==
    [][ (ReprobeEnds /\ is_connected /\ last_probe'.outcome # "ok200")
            => (~is_connected' /\ monPc' = "probing") ]_vars

(* ------------------------------- C18 ---------------------------------- *)
\* C18: an iteration of the send loop that finds the interval elapsed and
\* the sender Disconnected makes no POST and ends at its sleep with
\* last_send_time set to the current time; and whenever a POST is made,
\* is_connected is True.
C18_DisconnectedCycleSkips ==
    [][ /\ ( /\ LoopIterates
             /\ IntervalElapsed(now, last_send_time)
             /\ ~is_connected )
               => ( /\ posts' = posts
                    /\ nextSnap' = nextSnap
                    /\ loopPc' = "sleeping"
                    /\ last_send_time' = now )
        /\ posts' # posts => is_connected ]_vars

\* No POST was ever made, and a cycle has ended while Disconnected with the
\* pacing timestamp at the current time.
C18_Witness ==
    /\ posts = << >>
    /\ ~is_connected
    /\ loopPc = "sleeping"
    /\ last_send_time = now
    /\ current_time = now
    /\ monPc = "sleep5"

(* ------------------------------- C12 ---------------------------------- *)
\* C12: for the registry of every reachable state and every handle (in the
\* registry, removed from it, or never registered), disconnect(handle)
\* raises no error, the handle is not registered afterwards, a second call
\* raises no error and changes nothing, a call on a handle that is not
\* registered changes nothing, and every other handle stays registered, in
\* the same order.
C12_DisconnectIdempotent ==
    \A s \in Subs :
        LET once == disconnect(active_connections, s)
        IN  /\ ~disconnect_raises(active_connections, s)
            /\ ~disconnect_raises(once, s)
            /\ s \notin Range(once)
            /\ disconnect(once, s) = once
            /\ s \notin Range(active_connections) => once = active_connections
            /\ once = SelectSeq(active_connections, LAMBDA x : x # s)

\* A connection was removed by a broadcast whose push to it failed, its
\* handler has ended with its own disconnect() as well, and another
\* connection is still registered.
C12_Witness ==
    \E r \in Reqs, s \in Subs :
        /\ rqPc[r] = "done"
        /\ s \in Range(disconnected[r])
        /\ wsPc[s] = "closed"
        /\ s \notin Range(active_connections)
        /\ active_connections # << >>

(* ------------------------------- C13 ---------------------------------- *)
\* C13: no connection is sent two messages (initial_data or
\* can_data_update) that carry the Snapshot of the same receive().
C13_AtMostOncePerSnapshot ==
    \A s \in Subs :
        \A i, j \in DOMAIN chan[s] :
            i < j => chan[s][i].req # chan[s][j].req

(* ------------------------------- C15 ---------------------------------- *)
\* The connections a broadcast has attempted a push to: delivered, or put on
\* its `disconnected` list.
Attempted(r) ==
    { s \in Subs : Delivered(s, r) \/ s \in Range(disconnected[r]) }

\* C15: when a receive() has returned, its broadcast has attempted a push to
\* no connection that was not registered when it began, and to every
\* connection that was registered when it began and has stayed open (and so
\* registered) since.
C15_PointInTimeRecipients ==
    \A r \in Reqs :
        rqPc[r] = "done" =>
            /\ Attempted(r) \subseteq startReg[r].reg
            /\ \A s \in startReg[r].reg : alive[s] => s \in Attempted(r)

(* ------------------------------- C16 ---------------------------------- *)
\* C16: with handlers resumed fairly, every receive() that has begun its
\* broadcast eventually returns, also when a viewer has stopped reading.
C16_SlowSubscriberDoesNotBlock ==
    \A r \in Reqs : (rqPc[r] = "pushing") ~> (rqPc[r] = "done")

(* ------------------------------- C19 ---------------------------------- *)
\* A connect, a disconnect by the connection's handler, the end of a
\* broadcast: the steps that may change the registry.
ConnectStep(s) == wsPc[s] = "accepting" /\ wsPc'[s] \in {"greeting", "open"}
HandlerDisconnectStep(s) ==
    wsPc[s] \in {"greeting", "open"} /\ wsPc'[s] = "closed"
BroadcastEnds(r) == rqPc[r] = "pushing" /\ rqPc'[r] = "done"

\* C19: the registry changes only in a connect step (the connection is
\* added), in a handler's disconnect (it is removed) or at the end of a
\* broadcast, which removes only connections that were not delivered its
\* message (their push failed); any other step of a receive(), and every
\* pull query and health query, leaves the registry as it is, and the two
\* queries leave latest_can_data as it is.
C19_RegistryFrame ==
    [][ LET old     == Range(active_connections)
            new     == Range(active_connections')
        IN  /\ active_connections' # active_connections =>
                   \/ \E s \in Subs :
                          ConnectStep(s) /\ new = old \cup {s}
                   \/ \E s \in Subs :
                          HandlerDisconnectStep(s) /\ new = old \ {s}
                   \/ \E r \in Reqs :
                          /\ BroadcastEnds(r)
                          /\ new \subseteq old
                          /\ \A s \in old \ new :
                                 /\ s \in Range(disconnected'[r])
                                 /\ ~\E i \in DOMAIN chan'[s] :
                                        chan'[s][i] = msg[r]
            /\ \A r \in Reqs :
                   (rqPc'[r] # rqPc[r] /\ disconnected'[r] = << >>)
                       => active_connections' = active_connections
            /\ (pullResult' # pullResult \/ healthResult' # healthResult)
                   => /\ active_connections' = active_connections
                      /\ latest_can_data' = latest_can_data ]_vars

\* A receive() whose pushes all succeeded has returned with the registry as
\* it was when it began, and a pull query and a health query were answered.
C19_Witness ==
    \E r \in Reqs :
        /\ rqPc[r] = "done"
        /\ disconnected[r] = << >>
        /\ startReg[r].reg # {}
        /\ Range(active_connections) = startReg[r].reg
        /\ \A s \in startReg[r].reg : Delivered(s, r)
        /\ pullResult.status = "success"
        /\ healthResult =
               [status |-> "healthy",
                connected_clients |-> Len(active_connections)]

(* ------------------------------- C20 ---------------------------------- *)
\* C20: once a receive() has been accepted (whatever JSON object it
\* carried), latest_can_data is never empty again: the pull query answers
\* success, and every connection whose accept completes is sent an
\* initial_data message carrying latest_can_data.
C20_NeverEmptyAgain ==
    [][ (\E r \in Reqs : rqPc'[r] \in {"pushing", "done"}) =>
            /\ Truthy(latest_can_data')
            /\ get_latest_data(latest_can_data').status = "success"
            /\ pullResult' # pullResult => pullResult'.status = "success"
            /\ \A s \in Subs :
                   ConnectStep(s) =>
                       /\ wsPc'[s] = "greeting"
                       /\ greetMsg'[s].type = "initial_data"
                       /\ greetMsg'[s].data = latest_can_data' ]_vars

\* The last receive() carried an empty JSON object; a pull query then
\* answered success and a connection was greeted.
C20_Witness ==
    \E r \in Reqs, s \in Subs :
        /\ latestReq = r
        /\ body[r].fields = EmptyDict
        /\ pullResult.status = "success"
        /\ pullResult.data = latest_can_data
        /\ \E i \in DOMAIN chan[s] :
               chan[s][i].type = "initial_data" /\ chan[s][i].req = r

(* ------------------------------- C21 ---------------------------------- *)
\* The hub is quiescent: no receive() is between its start and its return
\* and no websocket handler is between its arrival and the end of its
\* greeting.
HubQuiescent ==
    /\ \A r \in Reqs : rqPc[r] # "pushing"
    /\ \A s \in Subs : wsPc[s] \notin {"accepting", "greeting"}

\* C21: whenever the hub is quiescent and a receive() has been accepted,
\* every registered connection that was delivered a message was delivered,
\* as its last one, a message whose data is latest_can_data.
C21_QuiescentSubscribersCurrent ==
    (HubQuiescent /\ latestReq # 0) =>
        \A s \in Range(active_connections) :
            chan[s] # << >> =>
                chan[s][Len(chan[s])].data = latest_can_data

(* ------------------------------- C22 ---------------------------------- *)
\* A failed send sets is_connected False while the monitor is in its
\* sleep(30).
FlipsInWait == monPc = "sleep30" /\ is_connected /\ ~is_connected'

\* From some point on every probe that ends was answered 200.
HubReachable == last_probe.outcome = "ok200"

\* C22: a failed send that sets is_connected False during the monitor's
\* sleep(30) leaves the monitor in that sleep; until the sleep ends the flag
\* stays False and the monitor stays there; the monitor's next step is the
\* probe issued when the sleep ends; if that probe is answered 200,
\* is_connected is True again and the monitor sleeps 30 s again.  And, when
\* handlers are resumed fairly and from some point on every probe is
\* answered 200, every state of the running sender in which is_connected is
\* False is followed by one in which it is True.
C22_ReprobeAfterRunningWait ==
    /\ [][ /\ FlipsInWait => (monPc' = "sleep30" /\ wait_flip' = "flipped")
           /\ wait_flip = "flipped" => (monPc = "sleep30" /\ ~is_connected)
           /\ (wait_flip = "flipped" /\ monPc' # monPc) =>
                  (monPc' = "reprobing" /\ wait_flip' = "probed")
           /\ (wait_flip = "probed" /\ wait_flip' # "probed") =>
                  /\ last_probe'.at = "connected"
                  /\ last_probe'.outcome = "ok200" =>
                         (is_connected' /\ monPc' = "sleep30") ]_vars
    /\ (<>[]HubReachable) =>
           ((runPc = "running" /\ ~is_connected) ~> is_connected)

\* The probe issued at the end of a sleep(30) during which a failed send
\* had set is_connected False was answered 200: the sender is Connected
\* again and the monitor is in its next sleep(30).
C22_Witness ==
    /\ wait_flip = "answered"
    /\ post_outcome = "raise"
    /\ last_probe = [at |-> "connected", outcome |-> "ok200"]
    /\ is_connected
    /\ monPc = "sleep30"

====
